---- MODULE Spec2Model ----
(***************************************************************************)
(* Model of weather_dashboard.py: the WeatherDashboard class (bucket       *)
(* bootstrap, the two fetch operations, the persistence writer and the     *)
(* visualizer) and the orchestrator main().  The S3 bucket, the weather    *)
(* API and the wall clock are the environment: each call draws its outcome *)
(* from the outcomes the call can have.                                    *)
(***************************************************************************)
EXTENDS Integers, Sequences, FiniteSets, TLC

(***************************************************************************)
(* Bounds of the model.                                                    *)
(***************************************************************************)
\* number of runs of main() against the same bucket
MaxRuns == 2
\* seconds the wall clock may advance during the modelled runs
MaxClock == 1
\* number of method calls a client of the class makes in ClientSpec
MaxCalls == 2

(***************************************************************************)
(* JSON values as Python holds them after response.json(): tagged records. *)
(* A dict is a sequence of <<key, value>> pairs in insertion order.        *)
(***************************************************************************)
None == [none |-> TRUE]
Str(s) == [str |-> s]
Num(n) == [num |-> n]
Arr(elems) == [arr |-> elems]
Obj(pairs) == [obj |-> pairs]

\* the Python type of a value
Kind(x) == CHOOSE k \in DOMAIN x : TRUE

\* Python truth value of a fetched result: None and empty containers are false
Truthy(d) ==
    CASE Kind(d) = "none" -> FALSE
      [] Kind(d) = "obj" -> Len(d.obj) > 0
      [] Kind(d) = "arr" -> Len(d.arr) > 0
      [] Kind(d) = "str" -> d.str # ""
      [] Kind(d) = "num" -> d.num # 0

\* k in d
DictHas(d, k) == Kind(d) = "obj" /\ \E i \in 1..Len(d.obj) : d.obj[i][1] = k

\* d[k], for a key that is present
DictGet(d, k) == d.obj[CHOOSE i \in 1..Len(d.obj) : d.obj[i][1] = k][2]

\* d[k] = val: replaces the value of a present key in place, appends a new key
DictSet(d, k, val) ==
    IF DictHas(d, k)
    THEN Obj([i \in 1..Len(d.obj) |->
                 IF d.obj[i][1] = k THEN <<k, val>> ELSE d.obj[i]])
    ELSE Obj(Append(d.obj, <<k, val>>))

DictKeys(d) == {d.obj[i][1] : i \in 1..Len(d.obj)}

(***************************************************************************)
(* json.dumps / json.loads.  A JSON text is a sequence of tokens.          *)
(***************************************************************************)
Punct(c) == [punct |-> c]
IsPunct(tok, c) == DOMAIN tok = {"punct"} /\ tok.punct = c

RECURSIVE DumpValue(_)
RECURSIVE DumpElems(_, _)
RECURSIVE DumpMembers(_, _)

DumpElems(elems, i) ==
    IF i > Len(elems) THEN <<>>
    ELSE (IF i > 1 THEN <<Punct(",")>> ELSE <<>>)
         \o DumpValue(elems[i]) \o DumpElems(elems, i + 1)

DumpMembers(pairs, i) ==
    IF i > Len(pairs) THEN <<>>
    ELSE (IF i > 1 THEN <<Punct(",")>> ELSE <<>>)
         \o <<[str |-> pairs[i][1]], Punct(":")>>
         \o DumpValue(pairs[i][2]) \o DumpMembers(pairs, i + 1)

DumpValue(x) ==
    CASE Kind(x) = "str" -> <<[str |-> x.str]>>
      [] Kind(x) = "num" -> <<[num |-> x.num]>>
      [] Kind(x) = "arr" -> <<Punct("[")>> \o DumpElems(x.arr, 1) \o <<Punct("]")>>
      [] Kind(x) = "obj" -> <<Punct("{")>> \o DumpMembers(x.obj, 1) \o <<Punct("}")>>
      [] Kind(x) = "none" -> <<[null |-> TRUE]>>

\* json.dumps(weather_data)
JsonDumps(x) == DumpValue(x)

RECURSIVE ParseValue(_, _)
RECURSIVE ParseElems(_, _, _)
RECURSIVE ParseMembers(_, _, _)

\* elements of an array from position i on; acc holds those already read
ParseElems(toks, i, acc) ==
    IF IsPunct(toks[i], "]") THEN [val |-> Arr(acc), next |-> i + 1]
    ELSE IF IsPunct(toks[i], ",") THEN ParseElems(toks, i + 1, acc)
    ELSE LET r == ParseValue(toks, i)
         IN  ParseElems(toks, r.next, Append(acc, r.val))

\* members of an object from position i on; a repeated key keeps its last value
ParseMembers(toks, i, acc) ==
    IF IsPunct(toks[i], "}") THEN [val |-> acc, next |-> i + 1]
    ELSE IF IsPunct(toks[i], ",") THEN ParseMembers(toks, i + 1, acc)
    ELSE LET r == ParseValue(toks, i + 2)
         IN  ParseMembers(toks, r.next, DictSet(acc, toks[i].str, r.val))

ParseValue(toks, i) ==
    CASE Kind(toks[i]) = "str" -> [val |-> Str(toks[i].str), next |-> i + 1]
      [] Kind(toks[i]) = "num" -> [val |-> Num(toks[i].num), next |-> i + 1]
      [] Kind(toks[i]) = "null" -> [val |-> None, next |-> i + 1]
      [] IsPunct(toks[i], "[") -> ParseElems(toks, i + 1, <<>>)
      [] IsPunct(toks[i], "{") -> ParseMembers(toks, i + 1, Obj(<<>>))

\* json.loads(text) / response.json()
JsonLoads(toks) == ParseValue(toks, 1).val

(***************************************************************************)
(* datetime.now().strftime('%Y%m%d-%H%M%S').  The clock counts the seconds *)
(* of 2024-01-01; the modelled runs start at 09:59:59.                     *)
(***************************************************************************)
ClockStart == 35999

Digits == <<"0", "1", "2", "3", "4", "5", "6", "7", "8", "9">>
Pad2(n) == Digits[(n \div 10) + 1] \o Digits[(n % 10) + 1]

Strftime(secs) ==
    "20240101-" \o Pad2(secs \div 3600) \o Pad2((secs \div 60) % 60) \o Pad2(secs % 60)

(***************************************************************************)
(* Configuration and the fixed inputs of the program.                      *)
(***************************************************************************)
\* os.getenv('AWS_BUCKET_NAME')
bucket_name == "weather-dashboard-bucket"

\* the hardcoded city list of main()
cities == <<"Philadelphia", "Seattle", "New York">>

WeatherUrl == "http://api.openweathermap.org/data/2.5/weather"
ForecastUrl == "http://api.openweathermap.org/data/2.5/forecast"

(***************************************************************************)
(* The weather API: what a GET can come back with.  A 2xx response carries *)
(* a JSON object; the forecast object may be malformed for the visualizer. *)
(***************************************************************************)
Entry(dt, temp) ==
    Obj(<< <<"dt_txt", Str(dt)>>, <<"main", Obj(<< <<"temp", Num(temp)>> >>)>> >>)

\* current conditions of a city (temperatures in tenths of a degree)
CurrentPayloads(city) ==
    { Obj(<< <<"name", Str(city)>>, <<"main", Obj(<< <<"temp", Num(320)>> >>)>>,
             <<"cod", Num(200)>> >>) }

\* forecast series of a city: one well-formed, three malformed
ForecastPayloads(city) ==
    { Obj(<< <<"cod", Str("200")>>,
             <<"list", Arr(<< Entry("2024-01-01 00:00:00", 320),
                              Entry("2024-01-01 03:00:00", 355) >>)>>,
             <<"city", Obj(<< <<"name", Str(city)>> >>)>> >>),
      Obj(<< <<"cod", Str("200")>>,
             <<"city", Obj(<< <<"name", Str(city)>> >>)>> >>),
      Obj(<< <<"cod", Str("200")>>,
             <<"list", Arr(<< Entry("2024-01-01 00:00:00", 320),
                              Obj(<< <<"main", Obj(<< <<"temp", Num(355)>> >>)>> >>) >>)>> >>),
      Obj(<< <<"cod", Str("200")>>,
             <<"list", Arr(<< Obj(<< <<"dt_txt", Str("2024-01-01 00:00:00")>>,
                                     <<"main", Obj(<<>>)>> >>) >>)>> >>) }

ErrorBody == Obj(<< <<"cod", Str("404")>>, <<"message", Str("city not found")>> >>)

\* outcomes of requests.get(base_url, params): no response at all, an error
\* status, or a 2xx response whose body is the JSON text of a payload
Responses(payloads) ==
    { [kind |-> "ConnectionError", status |-> 0, body |-> <<>>],
      [kind |-> "response", status |-> 404, body |-> JsonDumps(ErrorBody)] }
    \cup { [kind |-> "response", status |-> 200, body |-> JsonDumps(p)] : p \in payloads }

(***************************************************************************)
(* The storage service.                                                    *)
(***************************************************************************)
\* head_bucket: succeeds on a bucket the caller may read; ClientError 404 on
\* a missing bucket; ClientError 403 when access is denied
HeadOutcomes(exists) == IF exists THEN {"ok", "403"} ELSE {"404", "403"}

\* create_bucket: succeeds or fails with a ClientError
CreateOutcomes == {"ok", "AccessDenied", "IllegalLocationConstraintException"}

\* put_object: needs the bucket; may fail with a ClientError on an existing one
PutOutcomes(exists) == IF exists THEN {"ok", "AccessDenied"} ELSE {"NoSuchBucket"}

\* the bucket after a successful put_object: the object under that key is replaced
PutObject(objs, key, body, ctype) ==
    {o \in objs : o.key # key} \cup {[key |-> key, body |-> body, ctype |-> ctype]}

(***************************************************************************)
(* The methods of WeatherDashboard, each as the result of one call given   *)
(* the outcomes of the external calls it makes:                            *)
(*   exc    the exception that leaves the method ("none": it returns)      *)
(*   ret    the return value                                               *)
(*   api    the external calls issued, in order                            *)
(*   lines  the console lines printed, in order                            *)
(***************************************************************************)
\* faulty variant: every error of the probe is taken for "not found"
CreateBucketOnAnyError(exists, head, create) ==
    LET probe == [op |-> "head_bucket", bucket |-> bucket_name, res |-> head]
        make == [op |-> "create_bucket", bucket |-> bucket_name, res |-> create]
    IN  IF head = "ok"
        THEN [exc |-> "none", ret |-> None, api |-> <<probe>>, exists |-> exists,
              lines |-> <<"Bucket " \o bucket_name \o " exists">>]
        ELSE [exc |-> "none", ret |-> None, api |-> <<probe, make>>,
              exists |-> (exists \/ create = "ok"),
              lines |-> <<"Creating bucket " \o bucket_name>>]

CreateBucketIfNotExists(exists, head, create) ==
    LET probe == [op |-> "head_bucket", bucket |-> bucket_name, res |-> head]
        make == [op |-> "create_bucket", bucket |-> bucket_name, res |-> create]
    IN  IF head = "ok"
        THEN [exc |-> "none", ret |-> None, api |-> <<probe>>, exists |-> exists,
              lines |-> <<"Bucket " \o bucket_name \o " exists">>]
        ELSE IF head = "404"
        THEN IF create = "ok"
             THEN [exc |-> "none", ret |-> None, api |-> <<probe, make>>,
                   exists |-> TRUE,
                   lines |-> <<"Creating bucket " \o bucket_name,
                               "Successfully created bucket " \o bucket_name>>]
             ELSE [exc |-> "none", ret |-> None, api |-> <<probe, make>>,
                   exists |-> exists,
                   lines |-> <<"Creating bucket " \o bucket_name,
                               "Error creating bucket: " \o create>>]
        ELSE [exc |-> "none", ret |-> None, api |-> <<probe>>, exists |-> exists,
              lines |-> <<>>]

\* faulty variant: raise_for_status() is not called, an error body is parsed and returned
FetchUnchecked(base_url, what, city, resp) ==
    LET get == [op |-> "GET", url |-> base_url, q |-> city, units |-> "imperial"]
    IN  IF resp.kind # "response"
        THEN [exc |-> "none", ret |-> None, api |-> <<get>>,
              lines |-> <<"Error fetching " \o what \o ": " \o resp.kind>>]
        ELSE [exc |-> "none", ret |-> JsonLoads(resp.body), api |-> <<get>>,
              lines |-> <<>>]

\* the body shared by fetch_weather and fetch_forecast, which differ in the
\* URL and in the text of the error line
Fetch(base_url, what, city, resp) ==
    LET get == [op |-> "GET", url |-> base_url, q |-> city, units |-> "imperial"]
    IN  IF resp.kind # "response"
        THEN [exc |-> "none", ret |-> None, api |-> <<get>>,
              lines |-> <<"Error fetching " \o what \o ": " \o resp.kind>>]
        ELSE IF resp.status >= 400
        THEN [exc |-> "none", ret |-> None, api |-> <<get>>,
              lines |-> <<"Error fetching " \o what \o ": HTTPError">>]
        ELSE [exc |-> "none", ret |-> JsonLoads(resp.body), api |-> <<get>>,
              lines |-> <<>>]

fetch_weather(city, resp) == Fetch(WeatherUrl, "weather data", city, resp)

fetch_forecast(city, resp) == Fetch(ForecastUrl, "weather forecast", city, resp)

\* faulty variant: the weather-data/ prefix is left out of the key
ObjectKeyNoPrefix(file_name) == file_name \o ".json"

ObjectKey(file_name) == "weather-data/" \o file_name \o ".json"

\* faulty variant: the ClientError of put_object is not caught
UploadUncaught(data, file_name, key, body, put, objs) ==
    LET call == [op |-> "put_object", bucket |-> bucket_name, key |-> key,
                 body |-> body, ctype |-> "application/json", res |-> put]
    IN  IF put = "ok"
        THEN [exc |-> "none", ret |-> TRUE, api |-> <<call>>,
              lines |-> <<"Successfully saved data for " \o file_name \o " to S3">>,
              data |-> data,
              objects |-> PutObject(objs, key, body, call.ctype)]
        ELSE [exc |-> "ClientError", ret |-> None, api |-> <<call>>, lines |-> <<>>,
              data |-> data, objects |-> objs]

\* the try block of save_to_s3 after the payload is stamped: put_object, the
\* success line and True, or the ClientError caught, the error line and False
Upload(data, file_name, key, body, put, objs) ==
    LET call == [op |-> "put_object", bucket |-> bucket_name, key |-> key,
                 body |-> body, ctype |-> "application/json", res |-> put]
    IN  IF put = "ok"
        THEN [exc |-> "none", ret |-> TRUE, api |-> <<call>>,
              lines |-> <<"Successfully saved data for " \o file_name \o " to S3">>,
              data |-> data,
              objects |-> PutObject(objs, key, body, call.ctype)]
        ELSE [exc |-> "none", ret |-> FALSE, api |-> <<call>>,
              lines |-> <<"Error saving to S3: " \o put>>,
              data |-> data, objects |-> objs]

\* faulty variant: the body is serialised before the payload is stamped
save_to_s3_unstamped(weather_data, file_name, now, put, objs) ==
    IF ~Truthy(weather_data)
    THEN [exc |-> "none", ret |-> FALSE, api |-> <<>>, lines |-> <<>>,
          data |-> weather_data, objects |-> objs]
    ELSE LET timestamp == Strftime(now)
             stamped == DictSet(weather_data, "timestamp", Str(timestamp))
         IN  Upload(stamped, file_name, ObjectKey(file_name),
                    JsonDumps(weather_data), put, objs)

\* faulty variant: the capture time is made part of the key
save_to_s3_versioned(weather_data, file_name, now, put, objs) ==
    IF ~Truthy(weather_data)
    THEN [exc |-> "none", ret |-> FALSE, api |-> <<>>, lines |-> <<>>,
          data |-> weather_data, objects |-> objs]
    ELSE LET timestamp == Strftime(now)
             stamped == DictSet(weather_data, "timestamp", Str(timestamp))
         IN  Upload(stamped, file_name, ObjectKey(file_name \o "_" \o timestamp),
                    JsonDumps(stamped), put, objs)

\* save_to_s3(weather_data, file_name) at wall-clock second now; put is the
\* outcome of put_object; data is weather_data after the call (mutated in place)
save_to_s3(weather_data, file_name, now, put, objs) ==
    IF ~Truthy(weather_data)
    THEN [exc |-> "none", ret |-> FALSE, api |-> <<>>, lines |-> <<>>,
          data |-> weather_data, objects |-> objs]
    ELSE LET timestamp == Strftime(now)
             stamped == DictSet(weather_data, "timestamp", Str(timestamp))
         IN  Upload(stamped, file_name, ObjectKey(file_name),
                    JsonDumps(stamped), put, objs)

\* the two list comprehensions of visualize_weather
Timestamps(list) == [i \in 1..Len(list) |-> DictGet(list[i], "dt_txt").str]
Temps(list) == [i \in 1..Len(list) |-> DictGet(DictGet(list[i], "main"), "temp").num]

\* visualize_weather(weather_data): a missing key raises KeyError before
\* anything is plotted; api holds the series handed to plt.plot
visualize_weather(weather_data) ==
    IF ~DictHas(weather_data, "list")
    THEN [exc |-> "KeyError", ret |-> None, api |-> <<>>, lines |-> <<>>]
    ELSE LET list == DictGet(weather_data, "list").arr
         IN  IF \E i \in 1..Len(list) : ~DictHas(list[i], "dt_txt")
             THEN [exc |-> "KeyError", ret |-> None, api |-> <<>>, lines |-> <<>>]
             ELSE IF \E i \in 1..Len(list) :
                        \/ ~DictHas(list[i], "main")
                        \/ ~DictHas(DictGet(list[i], "main"), "temp")
             THEN [exc |-> "KeyError", ret |-> None, api |-> <<>>, lines |-> <<>>]
             ELSE [exc |-> "none", ret |-> None, lines |-> <<>>,
                   api |-> <<[op |-> "plot", x |-> Timestamps(list),
                              y |-> Temps(list)]>>]

(***************************************************************************)
(* State.                                                                  *)
(***************************************************************************)
VARIABLES
    pc,             \* position of the running program
    run,            \* number of the current run of main()
    idx,            \* position of the for loop in cities
    weather_data,   \* local of main(), None while it is dead (between iterations)
    forecast_data,  \* local of main(), None while it is dead (between iterations)
    bucketExists,   \* the bucket named bucket_name exists
    objects,        \* the objects of the bucket
    clock,          \* seconds the wall clock has advanced
    trace,          \* method calls made since the last loop step, in order
    console         \* lines printed since the last loop step, in order

vars == <<pc, run, idx, weather_data, forecast_data, bucketExists, objects,
          clock, trace, console>>

\* record of one method call: its arguments and what it did
Call(op, name, arg, now, r) ==
    [op |-> op, name |-> name, arg |-> arg, now |-> now, exc |-> r.exc,
     ret |-> r.ret, api |-> r.api, lines |-> r.lines]

\* datetime.now(): the clock may have advanced since it was last read
Now == {t \in clock..MaxClock : t <= clock + 1}

city == cities[idx]

\* faulty variant: the exception of a call is swallowed and main() goes on
AfterSwallowed(r, next) == next

\* where main() goes after a call: on, or out with the uncaught exception
After(r, next) == IF r.exc = "none" THEN next ELSE "crashed"

(***************************************************************************)
(* main()                                                                  *)
(***************************************************************************)
Init ==
    /\ pc = "start"
    /\ run = 1
    /\ idx = 1
    /\ weather_data = None
    /\ forecast_data = None
    /\ bucketExists \in BOOLEAN
    /\ objects = {}
    /\ clock = 0
    /\ trace = <<>>
    /\ console = <<>>

\* dashboard = WeatherDashboard(); dashboard.create_bucket_if_not_exists()
Bootstrap ==
    /\ pc = "start"
    /\ \E head \in HeadOutcomes(bucketExists), create \in CreateOutcomes :
         LET r == CreateBucketIfNotExists(bucketExists, head, create)
         IN  /\ bucketExists' = r.exists
             /\ trace' = <<Call("create_bucket_if_not_exists", bucket_name,
                                 [existed |-> bucketExists], clock, r)>>
             /\ console' = r.lines
             /\ pc' = After(r, "loop")
    /\ idx' = 1
    /\ UNCHANGED <<run, weather_data, forecast_data, objects, clock>>

\* for city in cities: print(f"\nFetching weather for {city}...")
NextCity ==
    /\ pc = "loop"
    /\ idx <= Len(cities)
    /\ pc' = "fetch_weather"
    /\ trace' = <<>>
    /\ console' = <<"Fetching weather for " \o city \o "...">>
    /\ UNCHANGED <<run, idx, weather_data, forecast_data, bucketExists, objects, clock>>

\* the loop is exhausted: main() returns
LoopDone ==
    /\ pc = "loop"
    /\ idx > Len(cities)
    /\ pc' = "done"
    /\ UNCHANGED <<run, idx, weather_data, forecast_data, bucketExists, objects,
                   clock, trace, console>>

\* weather_data = dashboard.fetch_weather(city)
FetchWeather ==
    /\ pc = "fetch_weather"
    /\ \E resp \in Responses(CurrentPayloads(city)) :
         LET r == fetch_weather(city, resp)
         IN  /\ weather_data' = r.ret
             /\ trace' = Append(trace, Call("fetch_weather", city, resp, clock, r))
             /\ console' = console \o r.lines
             /\ pc' = After(r, "fetch_forecast")
    /\ UNCHANGED <<run, idx, forecast_data, bucketExists, objects, clock>>

\* forecast_data = dashboard.fetch_forecast(city)
FetchForecast ==
    /\ pc = "fetch_forecast"
    /\ \E resp \in Responses(ForecastPayloads(city)) :
         LET r == fetch_forecast(city, resp)
         IN  /\ forecast_data' = r.ret
             /\ trace' = Append(trace, Call("fetch_forecast", city, resp, clock, r))
             /\ console' = console \o r.lines
             /\ pc' = After(r, "check")
    /\ UNCHANGED <<run, idx, weather_data, bucketExists, objects, clock>>

\* if weather_data and forecast_data:
BothFetched ==
    /\ pc = "check"
    /\ Truthy(weather_data) /\ Truthy(forecast_data)
    /\ pc' = "save_current"
    /\ UNCHANGED <<run, idx, weather_data, forecast_data, bucketExists, objects,
                   clock, trace, console>>

\* faulty variant: the else branch leaves the loop (break) after the failure line
FetchFailedBreak ==
    /\ pc = "check"
    /\ ~(Truthy(weather_data) /\ Truthy(forecast_data))
    /\ console' = Append(console, "Failed to fetch weather data for " \o city)
    /\ idx' = Len(cities) + 1
    /\ pc' = "loop"
    /\ weather_data' = None
    /\ forecast_data' = None
    /\ UNCHANGED <<run, bucketExists, objects, clock, trace>>

\* else: print(f"Failed to fetch weather data for {city}")
FetchFailed ==
    /\ pc = "check"
    /\ ~(Truthy(weather_data) /\ Truthy(forecast_data))
    /\ console' = Append(console, "Failed to fetch weather data for " \o city)
    /\ idx' = idx + 1
    /\ pc' = "loop"
    /\ weather_data' = None
    /\ forecast_data' = None
    /\ UNCHANGED <<run, bucketExists, objects, clock, trace>>

\* faulty variant: main() checks the result and gives the city up when the upload failed
SaveCurrentChecked ==
    /\ pc = "save_current"
    /\ \E t \in Now, put \in PutOutcomes(bucketExists) :
         LET name == city \o "_current"
             r == save_to_s3(weather_data, name, ClockStart + t, put, objects)
         IN  /\ weather_data' = r.data
             /\ objects' = r.objects
             /\ clock' = t
             /\ trace' = Append(trace, Call("save_to_s3", name, weather_data,
                                            ClockStart + t, r))
             /\ console' = console \o r.lines
             /\ pc' = IF r.ret = TRUE THEN After(r, "save_forecast") ELSE "loop"
             /\ idx' = IF r.ret = TRUE THEN idx ELSE idx + 1
    /\ UNCHANGED <<run, forecast_data, bucketExists>>

\* dashboard.save_to_s3(weather_data, f"{city}_current"); the result is dropped
SaveCurrent ==
    /\ pc = "save_current"
    /\ \E t \in Now, put \in PutOutcomes(bucketExists) :
         LET name == city \o "_current"
             r == save_to_s3(weather_data, name, ClockStart + t, put, objects)
         IN  /\ weather_data' = r.data
             /\ objects' = r.objects
             /\ clock' = t
             /\ trace' = Append(trace, Call("save_to_s3", name, weather_data,
                                            ClockStart + t, r))
             /\ console' = console \o r.lines
             /\ pc' = After(r, "save_forecast")
    /\ UNCHANGED <<run, idx, forecast_data, bucketExists>>

\* dashboard.save_to_s3(forecast_data, f"{city}_forecast"); the result is dropped
SaveForecast ==
    /\ pc = "save_forecast"
    /\ \E t \in Now, put \in PutOutcomes(bucketExists) :
         LET name == city \o "_forecast"
             r == save_to_s3(forecast_data, name, ClockStart + t, put, objects)
         IN  /\ forecast_data' = r.data
             /\ objects' = r.objects
             /\ clock' = t
             /\ trace' = Append(trace, Call("save_to_s3", name, forecast_data,
                                            ClockStart + t, r))
             /\ console' = console \o r.lines
             /\ pc' = After(r, "visualize")
    /\ UNCHANGED <<run, idx, weather_data, bucketExists>>

\* dashboard.visualize_weather(forecast_data); print(f"Weather and forecast
\* data for {city} saved to S3!").  Nothing in main() catches an exception.
Visualize ==
    /\ pc = "visualize"
    /\ LET r == visualize_weather(forecast_data)
       IN  /\ trace' = Append(trace, Call("visualize_weather", city, forecast_data,
                                          clock, r))
           /\ pc' = After(r, "loop")
           /\ idx' = IF r.exc = "none" THEN idx + 1 ELSE idx
           /\ console' = IF r.exc = "none"
                         THEN Append(console, "Weather and forecast data for "
                                              \o city \o " saved to S3!")
                         ELSE console
    /\ weather_data' = None
    /\ forecast_data' = None
    /\ UNCHANGED <<run, bucketExists, objects, clock>>

\* the program is started again, against the same bucket
Rerun ==
    /\ pc \in {"done", "crashed"}
    /\ run < MaxRuns
    /\ run' = run + 1
    /\ pc' = "start"
    /\ idx' = 1
    /\ weather_data' = None
    /\ forecast_data' = None
    /\ trace' = <<>>
    /\ console' = <<>>
    /\ UNCHANGED <<bucketExists, objects, clock>>

Next ==
    \/ Bootstrap
    \/ NextCity
    \/ LoopDone
    \/ FetchWeather
    \/ FetchForecast
    \/ BothFetched
    \/ FetchFailed
    \/ SaveCurrent
    \/ SaveForecast
    \/ Visualize

\* one run of main()
Spec == Init /\ [][Next]_vars

\* one run of main() in which the steps main() takes by itself, without
\* waiting for a server or for the user, are eventually taken
FairSpec == Spec /\ WF_vars(FetchFailed) /\ WF_vars(NextCity) /\ WF_vars(LoopDone)

\* up to MaxRuns runs of main() against the same bucket
RunsNext == Next \/ Rerun

RunsSpec == Init /\ [][RunsNext]_vars
(***************************************************************************)
(* A client of WeatherDashboard that calls create_bucket_if_not_exists and *)
(* save_to_s3 directly, one call after the other, with arguments of its    *)
(* choice (main() never passes an absent payload to save_to_s3).           *)
(***************************************************************************)
ClientPayloads ==
    {None, Obj(<<>>)} \cup CurrentPayloads(cities[1]) \cup ForecastPayloads(cities[1])

ClientNames == {cities[1] \o "_current", cities[1] \o "_forecast"}

ClientInit ==
    /\ pc = "client"
    /\ run = 1
    /\ idx = 1
    /\ weather_data = None
    /\ forecast_data = None
    /\ bucketExists \in BOOLEAN
    /\ objects = {}
    /\ clock = 0
    /\ trace = <<>>
    /\ console = <<>>

\* dashboard.create_bucket_if_not_exists()
ClientEnsure ==
    /\ pc = "client"
    /\ Len(trace) < MaxCalls
    /\ \E head \in HeadOutcomes(bucketExists), create \in CreateOutcomes :
         LET r == CreateBucketIfNotExists(bucketExists, head, create)
         IN  /\ bucketExists' = r.exists
             /\ trace' = Append(trace, Call("create_bucket_if_not_exists", bucket_name,
                                            [existed |-> bucketExists], clock, r))
             /\ console' = console \o r.lines
             /\ pc' = After(r, "client")
    /\ UNCHANGED <<run, idx, weather_data, forecast_data, objects, clock>>

\* dashboard.save_to_s3(payload, name)
ClientSave ==
    /\ pc = "client"
    /\ Len(trace) < MaxCalls
    /\ \E payload \in ClientPayloads, name \in ClientNames, t \in Now,
          put \in PutOutcomes(bucketExists) :
         LET r == save_to_s3(payload, name, ClockStart + t, put, objects)
         IN  /\ objects' = r.objects
             /\ clock' = t
             /\ trace' = Append(trace, Call("save_to_s3", name, payload,
                                            ClockStart + t, r))
             /\ console' = console \o r.lines
             /\ pc' = After(r, "client")
    /\ UNCHANGED <<run, idx, weather_data, forecast_data, bucketExists>>

ClientNext == ClientEnsure \/ ClientSave

ClientSpec == ClientInit /\ [][ClientNext]_vars

(***************************************************************************)
(* Vocabulary of the properties.                                           *)
(***************************************************************************)
RECURSIVE ApiOf(_)
\* the external calls issued by a sequence of method calls, in order
ApiOf(calls) == IF Len(calls) = 0 THEN <<>> ELSE Head(calls).api \o ApiOf(Tail(calls))

IsPut(a) == a.op = "put_object"
IsCreate(a) == a.op = "create_bucket"

\* the put_object calls issued since the last loop step
Puts == SelectSeq(ApiOf(trace), IsPut)

\* the key under which the spec stores the data of a city
KeyOf(c, kind) == "weather-data/" \o c \o "_" \o kind \o ".json"

\* the iteration of a city has ended (normally or with the run) and trace
\* holds its calls; its city is the one the first call names
IterationOver ==
    /\ pc \in {"loop", "done", "crashed"}
    /\ Len(trace) >= 2
    /\ trace[1].op = "fetch_weather"

\* both fetches of the iteration in trace returned a payload
BothValid == trace[1].ret # None /\ trace[2].ret # None

FetchFailedFor(i) ==
    /\ pc = "check"
    /\ idx = i
    /\ (weather_data = None \/ forecast_data = None)

C2_FailureStep ==
    (\E i \in 1..Len(cities) : FetchFailedFor(i)) =>
       /\ pc' = "loop"
       /\ idx' = idx + 1
       /\ objects' = objects
       /\ trace' = trace
       /\ Len(trace) = 2
       /\ \A k \in 1..Len(trace) : trace[k].op \in {"fetch_weather", "fetch_forecast"}
       /\ Puts = <<>>
       /\ console'[Len(console')] = "Failed to fetch weather data for " \o cities[idx]

C2_FailedCityIsSkipped ==
    /\ [][C2_FailureStep]_vars
    /\ \A i \in 1..Len(cities) :
          FetchFailedFor(i) ~>
             \/ (pc = "fetch_weather" /\ idx = i + 1)
             \/ (pc = "done" /\ i = Len(cities))

C2_Witness ==
    /\ pc = "loop"
    /\ idx = 3
    /\ IterationOver
    /\ trace[1].name = "Seattle"
    /\ trace[1].ret # None /\ trace[2].ret = None
    /\ console[Len(console)] = "Failed to fetch weather data for Seattle"
    /\ bucketExists

(***************************************************************************)
(* C3: create_bucket_if_not_exists lets no error escape, and every failure *)
(* of the probe other than "not found" and every failure of create_bucket  *)
(* is reported with a console line before main() goes on to the city loop. *)
(***************************************************************************)
C3_ErrorsCaughtAndLogged ==
    (pc = "loop" /\ Len(trace) = 1 /\ trace[1].op = "create_bucket_if_not_exists") =>
       LET c == trace[1]
       IN  /\ c.exc = "none"
           /\ \A k \in 1..Len(c.api) :
                 c.api[k].res \notin {"ok", "404"} => Len(c.lines) > 0

(***************************************************************************)
(* C4: two calls of create_bucket_if_not_exists in succession issue at     *)
(* most one create_bucket call in total; a call on an existing bucket      *)
(* issues none.                                                            *)
(***************************************************************************)
Creates(c) == SelectSeq(c.api, IsCreate)

SuccessiveEnsures(i) ==
    /\ i + 1 <= Len(trace)
    /\ trace[i].op = "create_bucket_if_not_exists"
    /\ trace[i + 1].op = "create_bucket_if_not_exists"

C4_AtMostOneCreate ==
    /\ \A i \in 1..Len(trace) :
          SuccessiveEnsures(i) =>
             Len(Creates(trace[i])) + Len(Creates(trace[i + 1])) <= 1
    /\ \A i \in 1..Len(trace) :
          (trace[i].op = "create_bucket_if_not_exists" /\ trace[i].arg.existed)
             => Creates(trace[i]) = <<>>

\* amended: a second create_bucket call is issued only after the first one
\* failed; at most one create_bucket call succeeds
C4_AtMostOneCreateUnlessFailed ==
    /\ \A i \in 1..Len(trace) :
          SuccessiveEnsures(i) =>
             /\ Len(Creates(trace[i])) <= 1
             /\ Len(Creates(trace[i + 1])) <= 1
             /\ (Len(Creates(trace[i])) + Len(Creates(trace[i + 1])) > 1
                    => Creates(trace[i])[1].res # "ok")
             /\ Len(SelectSeq(Creates(trace[i]) \o Creates(trace[i + 1]),
                              LAMBDA a : a.res = "ok")) <= 1
    /\ \A i \in 1..Len(trace) :
          (trace[i].op = "create_bucket_if_not_exists" /\ trace[i].arg.existed)
             => Creates(trace[i]) = <<>>

C4_Witness ==
    /\ SuccessiveEnsures(1)
    /\ Len(Creates(trace[1])) = 1 /\ Creates(trace[1])[1].res # "ok"
    /\ Len(Creates(trace[2])) = 1 /\ Creates(trace[2])[1].res = "ok"

SentPayloads(c) ==
    IF c.op = "fetch_weather" THEN CurrentPayloads(c.name) ELSE ForecastPayloads(c.name)

ExpectedStamp ==
    <<"20240101-095959", "20240101-100000", "20240101-100001", "20240101-100002">>

AllKeys ==
    {KeyOf(cities[i], kind) : i \in 1..Len(cities), kind \in {"current", "forecast"}}

C8_OnePerKey ==
    /\ \A o \in objects : o.key \in AllKeys
    /\ \A o1, o2 \in objects : o1.key = o2.key => o1 = o2

C8_WriteStep ==
    LET saving == pc \in {"save_current", "save_forecast"}
        kind == IF pc = "save_current" THEN "current" ELSE "forecast"
        key == KeyOf(cities[idx], kind)
        last == trace'[Len(trace')]
    IN  IF saving /\ Len(trace') = Len(trace) + 1 /\ last.ret = TRUE
        THEN /\ {o \in objects' : o.key # key} = {o \in objects : o.key # key}
             /\ {o.body : o \in {p \in objects' : p.key = key}} = {last.api[1].body}
        ELSE objects' = objects

C8_LatestWriteWins == []C8_OnePerKey /\ [][C8_WriteStep]_vars

C8_Witness ==
    /\ run = 2
    /\ idx = 1
    /\ pc = "save_forecast"
    /\ Cardinality(objects) = 2 * Len(cities)
    /\ trace[3].ret = TRUE
    /\ trace[3].now = ClockStart + 1
    /\ \E o \in objects :
          /\ o.key = KeyOf("Philadelphia", "forecast")
          /\ DictGet(JsonLoads(o.body), "timestamp") = Str("20240101-095959")

(***************************************************************************)
(* C9: for a city whose two fetches succeeded, a failed upload of the      *)
(* current conditions does not stop the iteration: the forecast upload is  *)
(* attempted next and visualize_weather(forecast) is called after it.      *)
(***************************************************************************)
C9_UploadFailureIgnored ==
    (/\ IterationOver
     /\ Len(trace) >= 3
     /\ trace[3].op = "save_to_s3"
     /\ trace[3].ret = FALSE) =>
       /\ Len(trace) = 5
       /\ trace[4].op = "save_to_s3"
       /\ trace[4].name = trace[1].name \o "_forecast"
       /\ Len(trace[4].api) = 1 /\ IsPut(trace[4].api[1])
       /\ trace[5].op = "visualize_weather"
       /\ trace[5].arg = DictSet(trace[2].ret, "timestamp", Str(Strftime(trace[4].now)))

C9_Witness ==
    /\ pc = "loop"
    /\ IterationOver
    /\ Len(trace) = 5
    /\ trace[3].ret = FALSE /\ trace[3].api[1].res = "AccessDenied"
    /\ trace[4].ret = TRUE
    /\ trace[5].exc = "none" /\ Len(trace[5].api) = 1

(***************************************************************************)
(* C10: a malformed forecast (no list, or an entry without dt_txt or       *)
(* main.temp) makes visualize_weather raise; nothing catches the error, so *)
(* the run ends there, after the two uploads of that city were issued and  *)
(* before anything is done for the cities after it.                        *)
(***************************************************************************)
Malformed(d) ==
    \/ "list" \notin DictKeys(d)
    \/ \E i \in 1..Len(DictGet(d, "list").arr) :
          LET e == DictGet(d, "list").arr[i]
          IN  \/ "dt_txt" \notin DictKeys(e)
              \/ "main" \notin DictKeys(e)
              \/ "temp" \notin DictKeys(DictGet(e, "main"))

C10_MalformedForecastEndsRun ==
    \A i \in 1..Len(trace) :
       trace[i].op = "visualize_weather" =>
          IF Malformed(trace[i].arg)
          THEN /\ trace[i].exc # "none"
               /\ trace[i].api = <<>>
               /\ pc = "crashed"
               /\ ~ENABLED Next
               /\ i = Len(trace)
               /\ trace[1].name = cities[idx]
               /\ Len(Puts) = 2
               /\ Len(trace[3].api) = 1 /\ Len(trace[4].api) = 1
          ELSE /\ trace[i].exc = "none"
               /\ pc # "crashed"

C10_Witness ==
    /\ pc = "crashed"
    /\ idx = 1
    /\ Len(trace) = 5
    /\ trace[5].op = "visualize_weather"
    /\ "list" \notin DictKeys(trace[5].arg)
    /\ Cardinality(objects) = 2

====
